---- MODULE Spec2Model ----
(***************************************************************************)
(* Blog application (Django): Post / Comment / Like tables, Post.save's    *)
(* slug assignment, and the request handlers of views.py.  Every database  *)
(* query or write of a handler is one step of the request that runs it, so *)
(* two requests interleave between their queries.                          *)
(*                                                                         *)
(* Text (titles, contents, slugs, query strings) is a sequence of          *)
(* one-character strings.                                                  *)
(***************************************************************************)
EXTENDS Integers, Sequences, FiniteSets, TLC

\* ---------------------------------------------------------------- bounds
\* Post rows ever inserted by overlapping requests.
MaxPk == 2
\* Like rows ever inserted.
MaxLikeId == 2
\* Comment rows ever inserted.
MaxCommentId == 1
\* Post rows ever inserted while likes and comments are exercised.
MaxPosts == 1
\* Post rows ever inserted, one request at a time.
MaxPkSeq == 3
\* Post rows ever inserted for the listings.
MaxPkList == 2

\* Concurrent request slots (worker threads / processes of the web server).
Procs == {1, 2}

\* ----------------------------------------------------------------- users
Anon == "anon"
Users == {"u1", "u2"}
Viewers == Users \cup {Anon}

\* mutant: the login test always passes
AlwaysAuthenticated(u) == TRUE

\* request.user.is_authenticated
is_authenticated(u) == u # Anon

\* ------------------------------------------------------------------ text
Upper == <<"A","B","C","D","E","F","G","H","I","J","K","L","M",
           "N","O","P","Q","R","S","T","U","V","W","X","Y","Z">>
LowerL == <<"a","b","c","d","e","f","g","h","i","j","k","l","m",
            "n","o","p","q","r","s","t","u","v","w","x","y","z">>
Digits == <<"0","1","2","3","4","5","6","7","8","9">>

InSeq(c, s) == \E i \in 1..Len(s) : s[i] = c

\* str.lower() on one character
LowerChar(c) ==
    IF InSeq(c, Upper) THEN LowerL[CHOOSE i \in 1..Len(Upper) : Upper[i] = c] ELSE c

lower(s) == [i \in 1..Len(s) |-> LowerChar(s[i])]

\* \w of the regular expressions: letters, digits, underscore
IsWord(c) == InSeq(c, Upper) \/ InSeq(c, LowerL) \/ InSeq(c, Digits) \/ c = "_"
\* \s
IsSpace(c) == c = " "

\* re.sub(r'[^\w\s-]', '', value)
KeepSlugChar(c) == IsWord(c) \/ IsSpace(c) \/ c = "-"
StripOther(s) == SelectSeq(s, KeepSlugChar)

\* re.sub(r'[-\s]+', '-', value): every maximal run of hyphens and spaces
\* becomes one hyphen
IsSep(c) == c = "-" \/ IsSpace(c)
RECURSIVE CollapseSep(_)
CollapseSep(s) ==
    IF s = << >> THEN << >>
    ELSE IF IsSep(Head(s))
         THEN IF Len(s) > 1 /\ IsSep(s[2])
              THEN CollapseSep(Tail(s))
              ELSE <<"-">> \o CollapseSep(Tail(s))
         ELSE <<Head(s)>> \o CollapseSep(Tail(s))

\* .strip('-_')
IsStrip(c) == c = "-" \/ c = "_"
RECURSIVE LStrip(_)
LStrip(s) == IF s # << >> /\ IsStrip(Head(s)) THEN LStrip(Tail(s)) ELSE s
RECURSIVE RStrip(_)
RStrip(s) ==
    IF s # << >> /\ IsStrip(s[Len(s)]) THEN RStrip(SubSeq(s, 1, Len(s) - 1)) ELSE s
Strip(s) == RStrip(LStrip(s))

\* django.utils.text.slugify on ASCII text (the NFKD / ascii step changes
\* nothing on the alphabet used here)
slugify(title) == Strip(CollapseSep(StripOther(lower(title))))

\* str(counter): decimal digits
RECURSIVE ToStr(_)
ToStr(n) ==
    IF n < 10 THEN <<Digits[n + 1]>>
    ELSE ToStr(n \div 10) \o <<Digits[(n % 10) + 1]>>

\* f"{base_slug}-{counter}"
SlugCandidate(base_slug, counter) == base_slug \o <<"-">> \o ToStr(counter)

\* icontains: case-insensitive substring test
Contains(text, q) ==
    \E i \in 0..(Len(text) - Len(q)) : SubSeq(text, i + 1, i + Len(q)) = q
icontains(text, q) == Contains(lower(text), lower(q))

\* ---------------------------------------------------------------- inputs
TitleFirst  == <<"M","y"," ","F","i","r","s","t"," ","P","o","s","t","!">>
TitleSecond == <<"M","y"," ","F","i","r","s","t"," ","P","o","s","t"," ","2">>
TitleBang   == <<"!","!">>
Titles == {TitleFirst, TitleSecond, TitleBang}
Contents == {<<"H","e","l","l","o">>, <<"B","y","e">>}
Tags == {"django"}
Statuses == {"draft", "published"}
Queries == {<< >>, <<"p","O","s","T">>, <<"h","e","l","l">>, <<"b","Y">>, <<"z">>}

\* ----------------------------------------------------------------- state
VARIABLES
    posts,          \* Post table: set of rows
    comments,       \* Comment table: set of rows [id, post, user]
    likes,          \* Like table: set of rows [id, post, user]
    tagTable,       \* taggit Tag table: the tags that exist
    nextPk,         \* next AutoField value of the Post table
    nextLikeId,     \* next AutoField value of the Like table
    nextCommentId,  \* next AutoField value of the Comment table
    proc,           \* per request slot: position in its handler, its locals,
                    \* and at the end the response it returns
    chain           \* history: the current run of like_post calls on one
                    \* (post, user) pair that no other operation on the pair
                    \* has overlapped

vars == <<posts, comments, likes, tagTable, nextPk, nextLikeId, nextCommentId,
          proc, chain>>

\* an unsaved Post instance (pk None is 0, slug '' is << >>)
NoObj == [pk |-> 0, title |-> << >>, slug |-> << >>, author |-> Anon,
          content |-> << >>, status |-> "draft", tags |-> {}, created |-> 0]

IdleProc == [pc |-> "idle", kind |-> "none", user |-> Anon, obj |-> NoObj,
             base_slug |-> << >>, slug_candidate |-> << >>, counter |-> 0,
             like |-> 0, outcome |-> "none"]

NoChain == [pk |-> 0, user |-> Anon, orig |-> FALSE, n |-> 0]

\* a handler of `kind`, run for `user`, at its return statement
Response(kind, user, outcome) ==
    [IdleProc EXCEPT !.pc = "respond", !.kind = kind, !.user = user,
                     !.outcome = outcome]

\* the handler reaches its return statement
Finish(p, r) == proc' = [proc EXCEPT ![p] = r]

\* ---------------------------------------------------------- storage layer
\* Post.objects.filter(slug=...)
PostsBySlug(slug) == {r \in posts : r.slug = slug}
PostExists(pk) == \E r \in posts : r.pk = pk
PostByPk(pk) == CHOOSE r \in posts : r.pk = pk

\* mutant: the slug column without unique=True
SlugNotUnique(slug, pk) == FALSE

\* Post.slug unique=True: a write of `slug` for row `pk` is rejected when
\* another row holds it
UniqueSlugViolated(slug, pk) == \E r \in posts : r.slug = slug /\ r.pk # pk

\* Like.objects.filter(post=..., user=...)
LikesOf(pk, user) == {l \in likes : l.post = pk /\ l.user = user}
Liked(pk, user) == LikesOf(pk, user) # {}

\* mutant: Like without unique_together
LikeNotUnique(pk, user) == FALSE

\* Like.Meta.unique_together = ('post', 'user')
UniqueLikeViolated(pk, user) == \E l \in likes : l.post = pk /\ l.user = user

\* mutant: Like.post without on_delete=CASCADE
LikesKept(pk) == likes

\* on_delete=CASCADE of Comment.post and Like.post
CascadeComments(pk) == {c \in comments : c.post # pk}
CascadeLikes(pk) == {l \in likes : l.post # pk}

\* mutant: the Like of a repeated request is not deleted
LikeNotDeleted(id) == likes

\* like.delete(): DELETE ... WHERE id = like.id
DeleteLike(id) == {l \in likes : l.id # id}

TypeOK ==
    /\ nextPk \in 1..(MaxPkSeq + 1)
    /\ nextLikeId \in 1..(MaxLikeId + 1)
    /\ nextCommentId \in 1..(MaxCommentId + 1)
    /\ tagTable \subseteq Tags
    /\ \A r \in posts : r.pk \in 1..MaxPkSeq /\ r.status \in Statuses /\ r.author \in Users
    /\ \A p \in Procs : proc[p].pc \in
          {"idle", "respond", "probe", "write", "delete", "comment_save",
           "like_get", "like_create", "like_reget", "like_delete"}

Init ==
    /\ posts = {}
    /\ comments = {}
    /\ likes = {}
    /\ tagTable = {}
    /\ nextPk = 1
    /\ nextLikeId = 1
    /\ nextCommentId = 1
    /\ proc = [p \in Procs |-> IdleProc]
    /\ chain = NoChain

\* ------------------------------------------------------------- Post.save
\* mutant: the counter starts at 0, so the first suffix tried is -1
SaveBeginCounterZero(rec) ==
    IF rec.obj.slug = << >>
    THEN [rec EXCEPT !.pc = "probe",
                     !.base_slug = slugify(rec.obj.title),
                     !.slug_candidate = slugify(rec.obj.title),
                     !.counter = 0]
    ELSE [rec EXCEPT !.pc = "write"]

\* lines 28-31: the slug is computed only when the instance has none
SaveBegin(rec) ==
    IF rec.obj.slug = << >>
    THEN [rec EXCEPT !.pc = "probe",
                     !.base_slug = slugify(rec.obj.title),
                     !.slug_candidate = slugify(rec.obj.title),
                     !.counter = 1]
    ELSE [rec EXCEPT !.pc = "write"]

\* lines 32-35: one evaluation of the while condition (one EXISTS query)
Probe(p) ==
    /\ proc[p].pc = "probe"
    /\ IF PostsBySlug(proc[p].slug_candidate) # {}
       THEN proc' = [proc EXCEPT
                ![p].counter = @ + 1,
                ![p].slug_candidate =
                    SlugCandidate(proc[p].base_slug, proc[p].counter + 1)]
       ELSE proc' = [proc EXCEPT
                ![p].obj.slug = proc[p].slug_candidate,
                ![p].pc = "write"]
    /\ UNCHANGED <<posts, comments, likes, tagTable, nextPk, nextLikeId,
                   nextCommentId, chain>>

\* line 36, super().save(): UPDATE the row of the instance's pk; INSERT when
\* the instance has no pk or the UPDATE matched no row.  The form's tags are
\* stored with the row.
Write(p) ==
    /\ proc[p].pc = "write"
    /\ LET o == proc[p].obj
           k == proc[p].kind
           u == proc[p].user
       IN IF UniqueSlugViolated(o.slug, o.pk)
          THEN /\ Finish(p, Response(k, u, "integrity_error"))
               /\ UNCHANGED <<posts, tagTable, nextPk>>
          ELSE IF o.pk # 0 /\ PostExists(o.pk)
          THEN /\ posts' = (posts \ {PostByPk(o.pk)}) \cup {o}
               /\ tagTable' = tagTable \cup o.tags
               /\ Finish(p, Response(k, u, "saved"))
               /\ UNCHANGED nextPk
          ELSE LET row == [o EXCEPT !.pk = IF o.pk # 0 THEN o.pk ELSE nextPk,
                                    !.created = nextPk]
               IN /\ posts' = posts \cup {row}
                  /\ tagTable' = tagTable \cup o.tags
                  /\ nextPk' = IF o.pk # 0 THEN nextPk ELSE nextPk + 1
                  /\ Finish(p, Response(k, u, "saved"))
    /\ UNCHANGED <<comments, likes, nextLikeId, nextCommentId, chain>>

\* ---------------------------------------------------------------- views
\* get_object_or_404(Post, slug=slug) and the views' get_object(): "404" when
\* no row matches, "error" (MultipleObjectsReturned) when several do
Lookup(slug) ==
    IF PostsBySlug(slug) = {} THEN "404"
    ELSE IF Cardinality(PostsBySlug(slug)) > 1 THEN "error"
    ELSE "found"
TheRow(slug) == CHOOSE r \in PostsBySlug(slug) : TRUE

\* slugs a request may name: those stored, and one that is not
SlugInputs == {r.slug : r \in posts} \cup {<<"n","o","n","e">>}

\* room for one more INSERT under a bound of `max` primary keys
Creating == {q \in Procs : proc[q].kind = "create" /\ proc[q].pc # "respond"}
PkLeft(max) == nextPk + Cardinality(Creating) <= max

\* the response is sent and the request slot is free again
Return(p) ==
    /\ proc[p].pc = "respond"
    /\ proc' = [proc EXCEPT ![p] = IdleProc]
    /\ UNCHANGED <<posts, comments, likes, tagTable, nextPk, nextLikeId,
                   nextCommentId, chain>>

\* PostCreateView: LoginRequiredMixin, then form_valid sets the author and
\* saves the new instance
CreateStart(p, u, title, content, status, tags) ==
    /\ proc[p].pc = "idle"
    /\ IF ~is_authenticated(u)
       THEN Finish(p, Response("create", u, "login"))
       ELSE /\ proc' = [proc EXCEPT ![p] = SaveBegin(
                  [IdleProc EXCEPT !.kind = "create", !.user = u,
                       !.obj = [NoObj EXCEPT !.title = title, !.content = content,
                                    !.status = status, !.tags = tags,
                                    !.author = u]])]
    /\ UNCHANGED <<posts, comments, likes, tagTable, nextPk, nextLikeId,
                   nextCommentId, chain>>

\* AuthorPermissionMixin.test_func
IsAuthor(post, u) == post.author = u

\* PostUpdateView: LoginRequiredMixin, AuthorPermissionMixin, then the form
\* writes its fields into the loaded instance and saves it
EditStart(p, u, slug, title, content, status, tags) ==
    /\ proc[p].pc = "idle"
    /\ IF ~is_authenticated(u)
       THEN Finish(p, Response("edit", u, "login"))
       ELSE IF Lookup(slug) # "found"
       THEN Finish(p, Response("edit", u, Lookup(slug)))
       ELSE IF ~IsAuthor(TheRow(slug), u)
       THEN Finish(p, Response("edit", u, "forbidden"))
       ELSE /\ proc' = [proc EXCEPT ![p] = SaveBegin(
                  [IdleProc EXCEPT !.kind = "edit", !.user = u,
                       !.obj = [TheRow(slug) EXCEPT !.title = title,
                                    !.content = content, !.status = status,
                                    !.tags = tags]])]
    /\ UNCHANGED <<posts, comments, likes, tagTable, nextPk, nextLikeId,
                   nextCommentId, chain>>

\* PostDeleteView: LoginRequiredMixin, AuthorPermissionMixin
DeleteStart(p, u, slug) ==
    /\ proc[p].pc = "idle"
    /\ IF ~is_authenticated(u)
       THEN Finish(p, Response("delete", u, "login"))
       ELSE IF Lookup(slug) # "found"
       THEN Finish(p, Response("delete", u, Lookup(slug)))
       ELSE IF ~IsAuthor(TheRow(slug), u)
       THEN Finish(p, Response("delete", u, "forbidden"))
       ELSE /\ proc' = [proc EXCEPT ![p] =
                  [IdleProc EXCEPT !.pc = "delete", !.kind = "delete",
                                   !.user = u, !.obj = TheRow(slug)]]
    /\ UNCHANGED <<posts, comments, likes, tagTable, nextPk, nextLikeId,
                   nextCommentId, chain>>

\* the object's delete(): the row goes, and with it (CASCADE) its comments
\* and likes
DeleteWrite(p) ==
    /\ proc[p].pc = "delete"
    /\ LET o == proc[p].obj
       IN /\ posts' = {r \in posts : r.pk # o.pk}
          /\ comments' = CascadeComments(o.pk)
          /\ likes' = CascadeLikes(o.pk)
          /\ Finish(p, Response("delete", proc[p].user, "deleted"))
          /\ chain' = IF chain.pk = o.pk THEN NoChain ELSE chain
    /\ UNCHANGED <<tagTable, nextPk, nextLikeId, nextCommentId>>

\* mutant: `or` for `and` in the visibility test
CanViewOr(post, u) == ~(post.status # "published" \/ post.author # u)

\* post_detail line 52: the request goes on unless the post is unpublished
\* and the viewer is not its author
can_view(post, u) == ~(post.status # "published" /\ post.author # u)

Commenting == {q \in Procs : proc[q].pc = "comment_save"}

\* post_detail up to the comment's save: the lookup, the visibility test, and
\* for a POST the login test and the form's validation
DetailLoad(p, u, slug, method, form_valid) ==
    /\ proc[p].pc = "idle"
    /\ IF Lookup(slug) # "found"
       THEN Finish(p, Response("detail", u, Lookup(slug)))
       ELSE IF ~can_view(TheRow(slug), u)
       THEN Finish(p, Response("detail", u, "not_published"))
       ELSE IF method = "GET"
       THEN Finish(p, Response("detail", u, "render"))
       ELSE IF ~is_authenticated(u)
       THEN Finish(p, Response("detail", u, "login"))
       ELSE IF ~form_valid
       THEN Finish(p, Response("detail", u, "render"))
       ELSE /\ nextCommentId + Cardinality(Commenting) <= MaxCommentId
            /\ proc' = [proc EXCEPT ![p] =
                  [IdleProc EXCEPT !.pc = "comment_save", !.kind = "detail",
                                   !.user = u, !.obj = TheRow(slug)]]
    /\ UNCHANGED <<posts, comments, likes, tagTable, nextPk, nextLikeId,
                   nextCommentId, chain>>

\* comment.save(): the INSERT fails on the foreign key when the post is gone
CommentSave(p) ==
    /\ proc[p].pc = "comment_save"
    /\ LET o == proc[p].obj
           u == proc[p].user
       IN IF ~PostExists(o.pk)
          THEN /\ Finish(p, Response("detail", u, "integrity_error"))
               /\ UNCHANGED <<comments, nextCommentId>>
          ELSE /\ comments' = comments \cup
                      {[id |-> nextCommentId, post |-> o.pk, user |-> u]}
               /\ nextCommentId' = nextCommentId + 1
               /\ Finish(p, Response("detail", u, "commented"))
    /\ UNCHANGED <<posts, likes, tagTable, nextPk, nextLikeId, chain>>

\* another like_post request on the same (post, user) is under way
OtherLiking(p, pk, u) ==
    \E q \in Procs \ {p} :
        proc[q].kind = "like" /\ proc[q].obj.pk = pk /\ proc[q].user = u

Tracks(pk, u) == chain.pk = pk /\ chain.user = u

\* history of a like_post call that starts / ends / fails on (pk, u)
ChainStart(p, pk, u) ==
    IF OtherLiking(p, pk, u)
    THEN IF Tracks(pk, u) THEN NoChain ELSE chain
    ELSE IF Tracks(pk, u) /\ chain.n < 2 THEN chain
    ELSE [pk |-> pk, user |-> u, orig |-> Liked(pk, u), n |-> 0]
ChainEnd(pk, u) ==
    IF Tracks(pk, u) THEN [chain EXCEPT !.n = @ + 1] ELSE chain
ChainFail(pk, u) ==
    IF Tracks(pk, u) THEN NoChain ELSE chain

\* like_post lines 128-131: the lookup and the login test
LikeLoad(p, u, slug) ==
    /\ proc[p].pc = "idle"
    /\ IF Lookup(slug) # "found"
       THEN /\ Finish(p, Response("like", u, Lookup(slug)))
            /\ UNCHANGED chain
       ELSE IF ~is_authenticated(u)
       THEN /\ Finish(p, Response("like", u, "login"))
            /\ UNCHANGED chain
       ELSE /\ proc' = [proc EXCEPT ![p] =
                  [IdleProc EXCEPT !.pc = "like_get", !.kind = "like",
                                   !.user = u, !.obj = TheRow(slug)]]
            /\ chain' = ChainStart(p, TheRow(slug).pk, u)
    /\ UNCHANGED <<posts, comments, likes, tagTable, nextPk, nextLikeId,
                   nextCommentId>>

\* what a get() of the Like of (pk, u) gives: the row's id, 0 for
\* DoesNotExist, -1 for MultipleObjectsReturned
GetLike(pk, u) ==
    IF LikesOf(pk, u) = {} THEN 0
    ELSE IF Cardinality(LikesOf(pk, u)) > 1 THEN -1
    ELSE (CHOOSE l \in LikesOf(pk, u) : TRUE).id

\* get_or_create, its get()
LikeGet(p) ==
    /\ proc[p].pc = "like_get"
    /\ LET o == proc[p].obj
           u == proc[p].user
           g == GetLike(o.pk, u)
       IN IF g = 0
          THEN /\ proc' = [proc EXCEPT ![p].pc = "like_create"]
               /\ UNCHANGED chain
          ELSE IF g = -1
          THEN /\ Finish(p, Response("like", u, "error"))
               /\ chain' = ChainFail(o.pk, u)
          ELSE /\ proc' = [proc EXCEPT ![p].pc = "like_delete", ![p].like = g]
               /\ UNCHANGED chain
    /\ UNCHANGED <<posts, comments, likes, tagTable, nextPk, nextLikeId,
                   nextCommentId>>

\* get_or_create, its create(): the INSERT fails (IntegrityError) on the
\* foreign key when the post is gone and on unique_together when the pair is
\* stored; get_or_create then tries get() once more
LikeCreate(p) ==
    /\ proc[p].pc = "like_create"
    /\ nextLikeId <= MaxLikeId
    /\ LET o == proc[p].obj
           u == proc[p].user
       IN IF ~PostExists(o.pk) \/ UniqueLikeViolated(o.pk, u)
          THEN /\ proc' = [proc EXCEPT ![p].pc = "like_reget"]
               /\ UNCHANGED <<likes, nextLikeId, chain>>
          ELSE /\ likes' = likes \cup
                      {[id |-> nextLikeId, post |-> o.pk, user |-> u]}
               /\ nextLikeId' = nextLikeId + 1
               /\ Finish(p, Response("like", u, "liked"))
               /\ chain' = ChainEnd(o.pk, u)
    /\ UNCHANGED <<posts, comments, tagTable, nextPk, nextCommentId>>

\* get_or_create, the get() after an IntegrityError: the row somebody else
\* stored (created = False), or the IntegrityError raised again
LikeReget(p) ==
    /\ proc[p].pc = "like_reget"
    /\ LET o == proc[p].obj
           u == proc[p].user
           g == GetLike(o.pk, u)
       IN IF g = 0
          THEN /\ Finish(p, Response("like", u, "integrity_error"))
               /\ chain' = ChainFail(o.pk, u)
          ELSE IF g = -1
          THEN /\ Finish(p, Response("like", u, "error"))
               /\ chain' = ChainFail(o.pk, u)
          ELSE /\ proc' = [proc EXCEPT ![p].pc = "like_delete", ![p].like = g]
               /\ UNCHANGED chain
    /\ UNCHANGED <<posts, comments, likes, tagTable, nextPk, nextLikeId,
                   nextCommentId>>

\* lines 133-135: created is False, the Like is deleted
LikeDelete(p) ==
    /\ proc[p].pc = "like_delete"
    /\ LET o == proc[p].obj
           u == proc[p].user
       IN /\ likes' = DeleteLike(proc[p].like)
          /\ Finish(p, Response("like", u, "unliked"))
          /\ chain' = ChainEnd(o.pk, u)
    /\ UNCHANGED <<posts, comments, tagTable, nextPk, nextLikeId, nextCommentId>>

\* -------------------------------------------------------------- listings
\* Meta.ordering / order_by('-created_at'): newest first
Newest(S) ==
    CHOOSE r \in S : \A x \in S :
        x.created < r.created \/ (x.created = r.created /\ x.pk <= r.pk)
RECURSIVE OrderNewestFirst(_)
OrderNewestFirst(S) ==
    IF S = {} THEN << >>
    ELSE <<Newest(S)>> \o OrderNewestFirst(S \ {Newest(S)})

Range(f) == {f[i] : i \in DOMAIN f}

\* mutant: the post list without its status filter
PostListAnyStatus(q) ==
    OrderNewestFirst(
        IF q # << >>
        THEN {r \in posts : icontains(r.title, q) \/ icontains(r.content, q)}
        ELSE posts)

\* PostListView.get_queryset, for ?q=<q> (q empty: no filter)
PostList(q) ==
    OrderNewestFirst(
        IF q # << >>
        THEN {r \in posts : /\ r.status = "published"
                            /\ (icontains(r.title, q) \/ icontains(r.content, q))}
        ELSE {r \in posts : r.status = "published"})

\* TagListView.get_queryset: 404 when the tag does not exist
TagList(tag) ==
    IF tag \notin tagTable THEN [found |-> FALSE, rows |-> << >>]
    ELSE [found |-> TRUE,
          rows |-> OrderNewestFirst(
                       {r \in posts : r.status = "published" /\ tag \in r.tags})]

\* the default limit of recent_posts
RecentLimit == 5

\* recent_posts(limit): the first `limit` published posts, newest first
recent_posts(limit) ==
    LET qs == OrderNewestFirst({r \in posts : r.status = "published"})
    IN SubSeq(qs, 1, IF limit < Len(qs) THEN limit ELSE Len(qs))

\* DashboardView.get_context_data: the user's posts, each with its like count
Dashboard(u) ==
    LET qs == OrderNewestFirst({r \in posts : r.author = u})
    IN [i \in 1..Len(qs) |->
           [post |-> qs[i],
            like_count |-> Cardinality({l \in likes : l.post = qs[i].pk})]]

Methods == {"GET", "POST"}

\* ------------------------------------------------------------- the system
\* Two overlapping requests of one author creating, editing and deleting
\* posts, under a title that has a slug and one that has none.
PostTitles == {TitleFirst, TitleBang}
NextPosts ==
    \/ \E p \in Procs, title \in PostTitles :
          PkLeft(MaxPk) /\ CreateStart(p, "u1", title, << >>, "draft", {})
    \/ \E p \in Procs, slug \in SlugInputs, title \in PostTitles :
          EditStart(p, "u1", slug, title, << >>, "draft", {})
    \/ \E p \in Procs : Probe(p)
    \/ \E p \in Procs : Write(p)
    \/ \E p \in Procs, slug \in SlugInputs : DeleteStart(p, "u1", slug)
    \/ \E p \in Procs : DeleteWrite(p)
    \/ \E p \in Procs : Return(p)

SpecPosts == Init /\ [][NextPosts]_vars

\* One request at a time: posts created, edited and deleted over every
\* title.
NextSeq ==
    \/ \E u \in {"u1", Anon}, title \in Titles :
          PkLeft(MaxPkSeq) /\ CreateStart(1, u, title, << >>, "draft", {})
    \/ \E u \in {"u1", Anon}, slug \in SlugInputs, title \in Titles :
          EditStart(1, u, slug, title, << >>, "draft", {})
    \/ Probe(1)
    \/ Write(1)
    \/ \E u \in {"u1", Anon}, slug \in SlugInputs : DeleteStart(1, u, slug)
    \/ DeleteWrite(1)
    \/ Return(1)

SpecSeq == Init /\ [][NextSeq]_vars

\* One request at a time: posts of two authors, with and without a tag,
\* draft and published, with one of two contents, for the listings.
ListTitles == {TitleFirst}
NextList ==
    \/ \E u \in Viewers, title \in ListTitles, content \in Contents,
          status \in Statuses, tags \in SUBSET Tags :
          PkLeft(MaxPkList) /\ CreateStart(1, u, title, content, status, tags)
    \/ \E u \in Viewers, slug \in SlugInputs, title \in ListTitles,
          content \in Contents, status \in Statuses, tags \in SUBSET Tags :
          EditStart(1, u, slug, title, content, status, tags)
    \/ Probe(1)
    \/ Write(1)
    \/ \E u \in Viewers, slug \in SlugInputs : DeleteStart(1, u, slug)
    \/ DeleteWrite(1)
    \/ Return(1)

SpecList == Init /\ [][NextList]_vars

\* Viewing, commenting and liking by two overlapping requests of an author,
\* another user and an anonymous viewer, on posts that are created and
\* deleted meanwhile.  The author writes a post only while the blog holds
\* none, so the posts of this specification follow one another (under the
\* same slug) and never stand side by side.
NextInteract ==
    \/ \E p \in Procs, status \in Statuses :
          /\ PkLeft(MaxPosts) /\ posts = {} /\ Creating = {}
          /\ CreateStart(p, "u1", TitleFirst, << >>, status, {})
    \/ \E p \in Procs : Probe(p)
    \/ \E p \in Procs : Write(p)
    \/ \E p \in Procs, u \in Viewers, slug \in SlugInputs : DeleteStart(p, u, slug)
    \/ \E p \in Procs : DeleteWrite(p)
    \/ \E p \in Procs, u \in Viewers, slug \in SlugInputs,
          method \in Methods, form_valid \in BOOLEAN :
          DetailLoad(p, u, slug, method, form_valid)
    \/ \E p \in Procs : CommentSave(p)
    \/ \E p \in Procs, u \in Viewers, slug \in SlugInputs : LikeLoad(p, u, slug)
    \/ \E p \in Procs : LikeGet(p)
    \/ \E p \in Procs : LikeCreate(p)
    \/ \E p \in Procs : LikeReget(p)
    \/ \E p \in Procs : LikeDelete(p)
    \/ \E p \in Procs : Return(p)

Spec == Init /\ [][NextInteract]_vars

\* ---------------------------------------------------------------- claims

\* C1: no two stored posts have the same slug, whatever the interleaving of
\* creations (also of identical titles whose existence checks and writes
\* overlap), edits and deletions.
C1_SlugUnique == \A r1 \in posts, r2 \in posts : r1.slug = r2.slug => r1 = r2

\* a creation that found its slug free is about to write it, and meanwhile
\* another request has stored a post with that very slug
C1_Witness ==
    \E p \in Procs :
        /\ proc[p].pc = "write"
        /\ proc[p].obj.pk = 0
        /\ \E r \in posts : r.slug = proc[p].obj.slug

\* the slug the claim names for a title and a set of stored slugs: the base
\* slug when it is free, otherwise base-k for the least k >= 2 with base-k free
SuffixText(base, k) == base \o <<"-">> \o ToStr(k)
ExpectedSlug(title, stored) ==
    LET base == slugify(title)
        k == CHOOSE n \in 2..(Cardinality(stored) + 2) :
                 /\ SuffixText(base, n) \notin stored
                 /\ \A j \in 2..(n - 1) : SuffixText(base, j) \in stored
    IN IF base \notin stored THEN base ELSE SuffixText(base, k)

\* C2: the slug a first save assigns is the title's base slug if no stored
\* post has it, and otherwise base-k for the smallest k >= 2 such that base-k
\* is not stored.
C2_AssignedSlug ==
    \A p \in Procs :
        (proc[p].pc = "write" /\ proc[p].obj.pk = 0) =>
            proc[p].obj.slug =
                ExpectedSlug(proc[p].obj.title, {r.slug : r \in posts})

\* the third post titled 'My First Post!' has been given my-first-post-3
C2_Witness ==
    /\ proc[1].pc = "write"
    /\ proc[1].obj.pk = 0
    /\ proc[1].obj.title = TitleFirst
    /\ proc[1].obj.slug = <<"m","y","-","f","i","r","s","t","-","p","o","s","t","-","3">>
    /\ \E r \in posts : r.slug = <<"m","y","-","f","i","r","s","t","-","p","o","s","t">>
    /\ \E r \in posts :
          r.slug = <<"m","y","-","f","i","r","s","t","-","p","o","s","t","-","2">>

\* C3: a save after the first one leaves the post's slug unchanged: no step
\* changes the slug of a stored post.
C3_SlugImmutable ==
    [][\A r \in posts : \A r2 \in posts' : r2.pk = r.pk => r2.slug = r.slug]_vars

\* C9: the post list (for every query text), the tag list and recent_posts
\* hold published posts only; the dashboard of a user holds exactly that
\* user's posts, drafts included.
C9_ListingsPublishedOnly ==
    /\ \A q \in Queries : \A r \in Range(PostList(q)) : r.status = "published"
    /\ \A t \in Tags \cup {"other"} :
          TagList(t).found =>
              \A r \in Range(TagList(t).rows) : r.status = "published"
    /\ \A n \in 0..RecentLimit :
          \A r \in Range(recent_posts(n)) : r.status = "published"
    /\ \A u \in Users :
          {e.post : e \in Range(Dashboard(u))} = {r \in posts : r.author = u}

\* a tagged draft whose content matches a query is stored beside a published
\* post of another author that the query and the tag list return, and its
\* author's dashboard shows the draft
C9_Witness ==
    \E d \in posts, r \in posts :
        /\ d.status = "draft"
        /\ "django" \in d.tags
        /\ icontains(d.content, <<"b","Y">>)
        /\ r.status = "published"
        /\ r.author # d.author
        /\ r \in Range(PostList(<<"b","Y">>))
        /\ r \in Range(TagList("django").rows)
        /\ r \in Range(recent_posts(RecentLimit))
        /\ d \notin Range(PostList(<<"b","Y">>))
        /\ d \in {e.post : e \in Range(Dashboard(d.author))}

\* what the claims call visible: the post is published or the viewer is its
\* author
Visible(post, u) == post.status = "published" \/ post.author = u

\* C4: post_detail shows the post iff it is published or the viewer is its
\* author; otherwise it answers with the 'not published' redirect to the
\* list and creates no comment.
C4_DetailVisibility ==
    [][\A p \in Procs :
          (proc[p].pc = "idle" /\ proc'[p].kind = "detail") =>
             \A u \in Viewers, slug \in SlugInputs, m \in Methods, v \in BOOLEAN :
                (/\ proc'[p].user = u /\ Lookup(slug) = "found"
                 /\ DetailLoad(p, u, slug, m, v)) =>
                    IF Visible(TheRow(slug), u)
                    THEN /\ m = "GET" =>
                              proc'[p] = Response("detail", u, "render")
                         /\ \/ proc'[p].pc = "comment_save"
                            \/ proc'[p] = Response("detail", u, "render")
                            \/ proc'[p] = Response("detail", u, "login")
                    ELSE /\ proc'[p] = Response("detail", u, "not_published")
                         /\ comments' = comments]_vars

\* a user who is not the author asked for a draft and got the redirect
C4_Witness ==
    /\ \E p \in Procs : proc[p] = Response("detail", "u2", "not_published")
    /\ \E r \in posts : r.status = "draft" /\ r.author = "u1"

\* C5: at most one Like row per (post, user), whatever the interleaving of
\* like_post requests and post deletions.
C5_OneLikePerPair ==
    \A l1 \in likes, l2 \in likes :
        (l1.post = l2.post /\ l1.user = l2.user) => l1 = l2

\* two overlapping like_post requests of one user on one post both found no
\* Like; one stored it and the other's INSERT was rejected
C5_Witness ==
    \E p \in Procs :
        /\ proc[p].pc = "like_reget"
        /\ Liked(proc[p].obj.pk, proc[p].user)

\* C6: like_post creates the Like when there is none and deletes it when
\* there is one, so after two calls in sequence on (P, U), with no other
\* operation on the pair in between, the pair is liked iff it was before.
C6_ToggleTwice ==
    chain.pk # 0 =>
        /\ chain.n = 1 => Liked(chain.pk, chain.user) # chain.orig
        /\ chain.n = 2 => Liked(chain.pk, chain.user) = chain.orig

\* liked, unliked, liked again
C6_Witness == chain.pk # 0 /\ chain.n = 2 /\ chain.orig

\* C7 as claimed: an anonymous like_post or comment submission, on any post,
\* ends in the login redirect and changes neither Likes nor Comments.
C7_AnonymousLogin ==
    [][\A p \in Procs :
          (proc[p].pc = "idle" /\ proc'[p].user = Anon) =>
             \A slug \in SlugInputs :
                /\ (/\ proc'[p].kind = "like" /\ Lookup(slug) = "found"
                    /\ LikeLoad(p, Anon, slug)) =>
                      /\ proc'[p] = Response("like", Anon, "login")
                      /\ likes' = likes /\ comments' = comments
                /\ \A v \in BOOLEAN :
                      (/\ proc'[p].kind = "detail" /\ Lookup(slug) = "found"
                       /\ DetailLoad(p, Anon, slug, "POST", v)) =>
                          /\ proc'[p] = Response("detail", Anon, "login")
                          /\ likes' = likes /\ comments' = comments]_vars

\* C7 amended: an anonymous like_post on any post, and an anonymous comment
\* submission on a published post, end in the login redirect; an anonymous
\* comment submission on a draft ends in the 'not published' redirect; in
\* every case Likes and Comments are unchanged.
C7_AnonymousRefused ==
    [][\A p \in Procs :
          (proc[p].pc = "idle" /\ proc'[p].user = Anon) =>
             \A slug \in SlugInputs :
                /\ (/\ proc'[p].kind = "like" /\ Lookup(slug) = "found"
                    /\ LikeLoad(p, Anon, slug)) =>
                      /\ proc'[p] = Response("like", Anon, "login")
                      /\ likes' = likes /\ comments' = comments
                /\ \A v \in BOOLEAN :
                      (/\ proc'[p].kind = "detail" /\ Lookup(slug) = "found"
                       /\ DetailLoad(p, Anon, slug, "POST", v)) =>
                          /\ proc'[p] = Response("detail", Anon, 
                                IF TheRow(slug).status = "published"
                                THEN "login" ELSE "not_published")
                          /\ likes' = likes /\ comments' = comments]_vars

\* an anonymous viewer submitted a comment on a published post and was sent
\* to the login page
C7_Witness ==
    /\ \E p \in Procs : proc[p] = Response("detail", Anon, "login")
    /\ \E r \in posts : r.status = "published"
    /\ comments = {}

\* C8: every stored Comment and Like references a post that exists.
C8_NoOrphans ==
    /\ \A c \in comments : PostExists(c.post)
    /\ \A l \in likes : PostExists(l.post)

\* a post that had a comment and a like has been deleted, and they with it
C8_Witness ==
    /\ posts = {}
    /\ nextCommentId > 1 /\ comments = {}
    /\ nextLikeId > 1 /\ likes = {}
    /\ \E p \in Procs : proc[p] = Response("delete", "u1", "deleted")

\* C10: a Like or a Comment of user U on post P is created only while P is
\* published or U is P's author.
C10_CreatedOnlyIfVisible ==
    [][/\ \A l \in likes' \ likes :
             \E r \in posts : r.pk = l.post /\ Visible(r, l.user)
       /\ \A c \in comments' \ comments :
             \E r \in posts : r.pk = c.post /\ Visible(r, c.user)]_vars

====
